---- MODULE Spec2Model ----
(***************************************************************************)
(* Function-version resolution and caching of crossbench                   *)
(* (cmd/functions.go): ExtractFunctionsFromComposition walks a pipeline,   *)
(* inferPackageFromFunctionName resolves each distinct function name       *)
(* through the version cache file and the GitHub releases API.             *)
(*                                                                         *)
(* Strings are sequences of tokens; the tokens form a prefix-free code, so *)
(* two token sequences are equal exactly when the Go strings are, and      *)
(* strings.HasPrefix / strings.Contains on the prefixes and separators the *)
(* code uses coincide with the token-level operators below.                *)
(* Times are integers; one unit is the cache expiration.                   *)
(*                                                                         *)
(* An extraction is split where it meets the outside: Start (the checks    *)
(* before the loop), Step (one loop iteration up to the remote call),      *)
(* FetchReturn (the response, the cache update and the rest of the         *)
(* iteration) and Return.  Spec runs pipelines of resolved names over      *)
(* every kind of cache file; SpecExtract runs longer pipelines with        *)
(* skipped and passed-through names; SpecLong runs pipelines of one more   *)
(* resolved name, starting without a cache file.  SpecCache applies        *)
(* getCachedVersion                                                        *)
(* and setCachedVersion to a store on its own, SpecMapper applies          *)
(* mapFunctionNameToGitHubRepo to a name on its own, SpecFetch applies     *)
(* fetchLatestReleaseVersion to a response on its own.  SpecLive is the    *)
(* extractor's walk under weak fairness of its own steps.  SpecRace runs   *)
(* two invocations at once on one cache file, with the save split into    *)
(* the open and the write of afero.WriteFile.                              *)
(***************************************************************************)
EXTENDS Integers, Sequences, FiniteSets, TLC

\* ------------------------------------------------------------------ bounds

\* longest pipeline walked by the extractor
MaxSteps == 3

\* longest pipeline of names that are all resolved
MaxCalls == 2

\* most tokens in a name given to the name mapper on its own
MaxNameLen == 3

\* last instant of the clock
MaxTime == 2

\* ------------------------------------------------------------- strings

EmptyString == <<>>

HasPrefix(s, prefix) ==
    /\ Len(s) >= Len(prefix)
    /\ SubSeq(s, 1, Len(prefix)) = prefix

TrimPrefix(s, prefix) ==
    IF HasPrefix(s, prefix) THEN SubSeq(s, Len(prefix) + 1, Len(s)) ELSE s

Contains(s, tok) == \E i \in 1..Len(s) : s[i] = tok

RECURSIVE TrimLeft(_)
TrimLeft(s) ==
    IF Len(s) > 0 /\ s[1] = " " THEN TrimLeft(Tail(s)) ELSE s

RECURSIVE TrimRight(_)
TrimRight(s) ==
    IF Len(s) > 0 /\ s[Len(s)] = " " THEN TrimRight(SubSeq(s, 1, Len(s) - 1)) ELSE s

TrimSpace(s) == TrimRight(TrimLeft(s))

\* ------------------------------------------------------- configuration

\* getCacheExpiration: 24h by default, here one clock unit
getCacheExpiration == 1

getDefaultGitHubOwner == <<"crossplane-contrib">>

getDefaultPackageRegistry == <<"xpkg.crossplane.io">>

getUpboundPackageRegistry == <<"xpkg.upbound.io">>

getUpboundFunctionNames == { <<"function-", "unit-test">> }

\* --------------------------------------------------------------- errors
\* An error is the chain of its layers, outermost first; fmt.Errorf with %w
\* puts one layer in front of the wrapped chain.

NoErr == <<>>

Wrap(msg, err) == <<msg>> \o err

\* err.(*RateLimitError): the dynamic type of the outermost error
IsRateLimitErrorType(err) == Len(err) > 0 /\ err[1] = "RateLimitError"

\* errors.As(err, *RateLimitError): some layer of the chain
ErrorsAsRateLimit(err) == \E i \in 1..Len(err) : err[i] = "RateLimitError"

\* ------------------------------------------------------- version cache

EmptyMap == [k \in {} |-> 0]

\* FunctionVersionCache{Versions: make(map[string]CacheEntry)}
EmptyCache == EmptyMap

CacheEntry(version, fetchedAt) == [version |-> version, fetchedAt |-> fetchedAt]

\* The cache file: absent, not JSON (also a truncated write), JSON without a
\* versions map, or JSON with the versions map.
FileOf(kind, versions) == [kind |-> kind, versions |-> versions]

\* nothing of the file is taken into the store
loadCache_forget(f, readFails) ==
    IF f.kind = "missing" THEN [cache |-> EmptyCache, err |-> NoErr]
    ELSE IF readFails THEN [cache |-> EmptyCache, err |-> <<"failed to read cache file", "io">>]
    ELSE [cache |-> EmptyCache, err |-> NoErr]

\* content that does not parse is reported like a read failure
loadCache_strict(f, readFails) ==
    IF f.kind = "missing" THEN [cache |-> EmptyCache, err |-> NoErr]
    ELSE IF readFails THEN [cache |-> EmptyCache, err |-> <<"failed to read cache file", "io">>]
    ELSE IF f.kind \in {"invalid", "nomap"}
         THEN [cache |-> EmptyCache, err |-> <<"failed to parse cache file", "json">>]
    ELSE [cache |-> f.versions, err |-> NoErr]

\* loadCache: result [cache, err]; readFails is afero.ReadFile failing with
\* an error other than not-exist.
loadCache(f, readFails) ==
    IF f.kind = "missing" THEN [cache |-> EmptyCache, err |-> NoErr]
    ELSE IF readFails THEN [cache |-> EmptyCache, err |-> <<"failed to read cache file", "io">>]
    ELSE IF f.kind = "invalid" THEN [cache |-> EmptyCache, err |-> NoErr]
    ELSE IF f.kind = "nomap" THEN [cache |-> EmptyCache, err |-> NoErr]
    ELSE [cache |-> f.versions, err |-> NoErr]

\* saveCache: result [file, err]; outcome is what afero.WriteFile does:
\* "ok", "open" (the file could not be opened: left as it was) or "write"
\* (opened with O_TRUNC, then the write failed: a truncated file).
saveCache(f, cache, outcome) ==
    IF outcome = "ok" THEN [file |-> FileOf("json", cache), err |-> NoErr]
    ELSE IF outcome = "open" THEN [file |-> f, err |-> <<"failed to write cache file", "io">>]
    ELSE [file |-> FileOf("invalid", EmptyMap), err |-> <<"failed to write cache file", "io">>]

\* an entry as old as the expiration already counts as expired
getCachedVersion_strict(cache, cacheKey, t, expiration) ==
    IF cacheKey \notin DOMAIN cache THEN [version |-> EmptyString, found |-> FALSE]
    ELSE IF t - cache[cacheKey].fetchedAt >= expiration
         THEN [version |-> EmptyString, found |-> FALSE]
    ELSE [version |-> cache[cacheKey].version, found |-> TRUE]

\* the age of the entry is not looked at
getCachedVersion_noExpiry(cache, cacheKey, t, expiration) ==
    IF cacheKey \notin DOMAIN cache THEN [version |-> EmptyString, found |-> FALSE]
    ELSE [version |-> cache[cacheKey].version, found |-> TRUE]

\* getCachedVersion: result [version, found]
getCachedVersion(cache, cacheKey, t, expiration) ==
    IF cacheKey \notin DOMAIN cache THEN [version |-> EmptyString, found |-> FALSE]
    ELSE IF t - cache[cacheKey].fetchedAt > expiration
         THEN [version |-> EmptyString, found |-> FALSE]
    ELSE [version |-> cache[cacheKey].version, found |-> TRUE]

\* the store is replaced by one that holds the new entry alone
setCachedVersion_onlyKey(cache, cacheKey, version, t) ==
    [k \in {cacheKey} |-> CacheEntry(version, t)]

\* an existing entry keeps the time it was first fetched at
setCachedVersion_keepTime(cache, cacheKey, version, t) ==
    [k \in DOMAIN cache \cup {cacheKey} |->
        IF k = cacheKey
        THEN CacheEntry(version, IF k \in DOMAIN cache THEN cache[k].fetchedAt ELSE t)
        ELSE cache[k]]

\* an entry already in the store is left as it is
setCachedVersion_ifAbsent(cache, cacheKey, version, t) ==
    [k \in DOMAIN cache \cup {cacheKey} |->
        IF k \in DOMAIN cache THEN cache[k] ELSE CacheEntry(version, t)]

\* setCachedVersion: the store after the assignment
setCachedVersion(cache, cacheKey, version, t) ==
    [k \in DOMAIN cache \cup {cacheKey} |->
        IF k = cacheKey THEN CacheEntry(version, t) ELSE cache[k]]

\* ------------------------------------------------------------ name mapper

\* "function-" is put in front of every name
mapFunctionNameToGitHubRepo_alwaysPrefix(functionName) ==
    LET ccf == <<"crossplane-contrib-", "function-">>
        f == <<"function-">>
        repo == IF HasPrefix(functionName, ccf) THEN f \o TrimPrefix(functionName, ccf)
                ELSE f \o functionName
    IN [owner |-> getDefaultGitHubOwner, repo |-> repo, err |-> NoErr]

mapFunctionNameToGitHubRepo(functionName) ==
    LET ccf == <<"crossplane-contrib-", "function-">>
        f == <<"function-">>
        repo == IF HasPrefix(functionName, ccf) THEN f \o TrimPrefix(functionName, ccf)
                ELSE IF HasPrefix(functionName, f) THEN functionName
                ELSE f \o functionName
    IN [owner |-> getDefaultGitHubOwner, repo |-> repo, err |-> NoErr]

getPackageRegistry(functionName) ==
    IF \E fn \in getUpboundFunctionNames : TrimSpace(fn) = functionName
    THEN getUpboundPackageRegistry
    ELSE getDefaultPackageRegistry

\* fmt.Sprintf("%s/%s", owner, repo)
CacheKeyOf(owner, repo) == owner \o <<"/">> \o repo

\* fmt.Sprintf("%s/%s/%s:%s", registry, owner, repo, version)
PackageNameOf(registry, owner, repo, version) ==
    registry \o <<"/">> \o owner \o <<"/">> \o repo \o <<":">> \o version

\* -------------------------------------------------- remote version client

\* A response of the release API: the transport failed (also a timeout or a
\* cancelled context), or a status with a body; a body has the rate-limit
\* marker or not, decodes as JSON or not, and carries a tag_name.
NetErr == [kind |-> "neterr", status |-> 0, marker |-> FALSE, json |-> FALSE, tag |-> EmptyString]

HttpResp(status, marker, json, tag) ==
    [kind |-> "http", status |-> status, marker |-> marker, json |-> json, tag |-> tag]

\* every status with the rate-limit marker in its body is a rate limit
fetchLatestReleaseVersion_anyStatus(resp) ==
    IF resp.kind = "neterr"
    THEN [version |-> EmptyString, err |-> <<"failed to fetch release", "transport">>]
    ELSE IF resp.status # 200 /\ resp.marker
    THEN [version |-> EmptyString, err |-> <<"RateLimitError">>]
    ELSE IF resp.status # 200
    THEN [version |-> EmptyString, err |-> <<"GitHub API returned status">>]
    ELSE IF ~resp.json
    THEN [version |-> EmptyString, err |-> <<"failed to decode response", "json">>]
    ELSE IF resp.tag = EmptyString
    THEN [version |-> EmptyString, err |-> <<"no tag name found in release">>]
    ELSE [version |-> resp.tag, err |-> NoErr]

\* fetchLatestReleaseVersion, from client.Do on: result [version, err]
fetchLatestReleaseVersion(resp) ==
    IF resp.kind = "neterr"
    THEN [version |-> EmptyString, err |-> <<"failed to fetch release", "transport">>]
    ELSE IF resp.status = 403
    THEN IF resp.marker
         THEN [version |-> EmptyString, err |-> <<"RateLimitError">>]
         ELSE [version |-> EmptyString, err |-> <<"GitHub API returned status">>]
    ELSE IF resp.status # 200
    THEN [version |-> EmptyString, err |-> <<"GitHub API returned status">>]
    ELSE IF ~resp.json
    THEN [version |-> EmptyString, err |-> <<"failed to decode response", "json">>]
    ELSE IF resp.tag = EmptyString
    THEN [version |-> EmptyString, err |-> <<"no tag name found in release">>]
    ELSE [version |-> resp.tag, err |-> NoErr]

\* the statuses the release API answers with
Statuses == {200, 403, 404, 429}

\* the tags the release API reports as latest
Tags == { <<"v2">> }

Responses ==
    {NetErr}
    \cup { HttpResp(s, m, TRUE, t) : s \in Statuses, m \in BOOLEAN, t \in Tags \cup {EmptyString} }
    \cup { HttpResp(s, m, FALSE, EmptyString) : s \in Statuses, m \in BOOLEAN }

WriteOutcomes == {"ok", "open", "write"}

\* ------------------------------------------------------------------ inputs

Procs == {1, 2}

\* the names that go through the cache and the remote: two that the mapper
\* sends to the same repository, and one of another repository
ResolverNames ==
    { <<"function-", "unit-test">>,
      <<"unit-test">>,
      <<"crossplane-contrib-", "function-", "foo">> }

\* the names of the extractor's walk: none, resolved, package references
ExtractNames ==
    { EmptyString,
      <<"function-", "unit-test">>,
      <<"xpkg.example.io", "/", "function-", "bar">>,
      <<"function-", "bar", ":", "v9">> }

Composition(mode, pipeline) == [mode |-> mode, pipeline |-> pipeline]

PipelinesOver(names, maxLen) == UNION { [1..n -> names] : n \in 0..maxLen }

\* compositions in Pipeline mode, and a few in the legacy mode
CompsOver(names, maxLen) ==
    { Composition("Pipeline", pl) : pl \in PipelinesOver(names, maxLen) }
    \cup { Composition("Resources", pl) : pl \in { q \in PipelinesOver(names, maxLen) : Len(q) <= 1 } }

InitKeys ==
    { CacheKeyOf(getDefaultGitHubOwner, <<"function-", "unit-test">>),
      CacheKeyOf(getDefaultGitHubOwner, <<"function-", "foo">>) }

\* cache files left by earlier runs: entries fetched at time 0, one
\* expiration before the run starts
InitFiles ==
    { FileOf("missing", EmptyMap), FileOf("invalid", EmptyMap), FileOf("nomap", EmptyMap) }
    \cup { FileOf("json", [k \in ks |-> CacheEntry(<<"v1">>, 0)]) : ks \in (SUBSET InitKeys) \ {{}} }

\* for the walk: no cache file, or one with every key
ExtractFiles == { f \in InitFiles : f.kind = "missing" \/ DOMAIN f.versions = InitKeys }

\* ------------------------------------------------------------------- state

\* the cache file on disk
VARIABLE file

\* the clock
VARIABLE now

\* per invocation: "off", "start", "loop", "fetching", "writing", "returned"
VARIABLE pc

\* the composition passed to ExtractFunctionsFromComposition
VARIABLE comp

\* the forceRefresh argument
VARIABLE forceRefresh

\* position of the range loop in comp.Spec.Pipeline
VARIABLE idx

\* names already seen
VARIABLE functionMap

\* descriptors appended so far; the returned list at the end
VARIABLE functions

\* the error returned by the extraction
VARIABLE retErr

\* the context of the extraction has expired
VARIABLE ctxDone

\* the resolution in progress, or the last one that ended
VARIABLE res

\* the names inferPackageFromFunctionName was called with, in order
VARIABLE calls

\* per invocation: what the resolutions of the extraction that have ended
\* did, in order
VARIABLE resolutions

\* a use of the store or of the name mapper on its own, outside an extraction
VARIABLE probe

vars == <<file, now, pc, comp, forceRefresh, idx, functionMap, functions, retErr, ctxDone, res, calls, resolutions, probe>>

inputs == <<comp, forceRefresh>>

Function(name, packageName) == [name |-> name, package |-> packageName]

\* A resolution: its arguments and locals, the error of loadCache, the store
\* the resolution went on with, the file before and after, the operations it performed in order, and its outcome.
NoRes ==
    [ state |-> "NONE", name |-> EmptyString, passThrough |-> FALSE,
      owner |-> EmptyString, repo |-> EmptyString, cacheKey |-> EmptyString,
      loadErr |-> NoErr, loaded |-> EmptyCache, cache |-> EmptyCache,
      fileBefore |-> FileOf("missing", EmptyMap), fileAfter |-> FileOf("missing", EmptyMap),
      ops |-> <<>>, checkedAt |-> 0, tag |-> EmptyString, fetchErr |-> NoErr,
      saveErr |-> NoErr, setAt |-> 0,
      version |-> EmptyString, packageName |-> EmptyString, err |-> NoErr ]

\* no use of the store or of the mapper on its own
NoProbe == [op |-> "off"]

InitLocals ==
    /\ idx = [p \in Procs |-> 1]
    /\ functionMap = [p \in Procs |-> {}]
    /\ functions = [p \in Procs |-> <<>>]
    /\ retErr = [p \in Procs |-> NoErr]
    /\ ctxDone = [p \in Procs |-> FALSE]
    /\ res = [p \in Procs |-> NoRes]
    /\ calls = [p \in Procs |-> <<>>]
    /\ resolutions = [p \in Procs |-> <<>>]

\* one invocation of the tool (crossbench render calls the extraction once)
\* on a composition over the given names and one of the given cache files
InitOf(names, maxLen, files) ==
    /\ file \in files
    /\ now = 1
    /\ \E c \in CompsOver(names, maxLen), fr \in BOOLEAN :
          /\ pc = [p \in Procs |-> IF p = 1 THEN "start" ELSE "off"]
          /\ comp = [p \in Procs |-> IF p = 1 THEN c ELSE Composition("Pipeline", <<>>)]
          /\ forceRefresh = [p \in Procs |-> IF p = 1 THEN fr ELSE FALSE]
    /\ InitLocals
    /\ probe = NoProbe

\* the resolver: every kind of cache file, names that are resolved
Init == InitOf(ResolverNames, MaxCalls, InitFiles)

\* pipelines of one more resolved name, starting without a cache file
InitLong == InitOf(ResolverNames, MaxCalls + 1, {FileOf("missing", EmptyMap)})

\* the extractor's walk: every kind of name
InitExtract == InitOf(ExtractNames, MaxSteps, ExtractFiles)

\* ----------------------------------------------------------------- resolver

\* only the path separator is looked for
LooksLikePackageRef_slashOnly(name) == Contains(name, "/")

\* "it already looks like a package reference"
LooksLikePackageRef(name) == Contains(name, "/") \/ Contains(name, ":")

\* forceRefresh forgotten in the short-circuit
CacheHit_ignoreForce(found, force) == found

\* the cache-hit short-circuit: found && !forceRefresh
CacheHit(found, force) == found /\ ~force

\* registry and package reference of a resolved version: the resolution is DONE
Resolve(r, version) ==
    [r EXCEPT !.state = "DONE", !.version = version,
              !.packageName = PackageNameOf(getPackageRegistry(r.name), r.owner, r.repo, version)]

\* the error of loadCache fails the resolution
InferBegin_failOnLoad(name, f, readFails, force, t) ==
    LET base == [NoRes EXCEPT !.name = name, !.fileBefore = f, !.fileAfter = f]
    IN
    IF Len(name) = 0
    THEN [base EXCEPT !.state = "FAIL", !.err = <<"function name cannot be empty">>]
    ELSE IF LooksLikePackageRef(name)
    THEN [base EXCEPT !.state = "DONE", !.passThrough = TRUE, !.packageName = name]
    ELSE
      LET m == mapFunctionNameToGitHubRepo(name)
          cacheKey == CacheKeyOf(m.owner, m.repo)
          ld == loadCache(f, readFails)
          cache == IF ld.err # NoErr THEN EmptyCache ELSE ld.cache
          got == getCachedVersion(cache, cacheKey, t, getCacheExpiration)
          mapped == [base EXCEPT !.owner = m.owner, !.repo = m.repo, !.cacheKey = cacheKey,
                                 !.loadErr = ld.err, !.loaded = cache, !.cache = cache, !.checkedAt = t,
                                 !.ops = <<"load", "get">>]
      IN
      IF m.err # NoErr
      THEN [base EXCEPT !.state = "FAIL",
                        !.err = Wrap("cannot map function name to GitHub repository", m.err)]
      ELSE IF ld.err # NoErr
      THEN [mapped EXCEPT !.state = "FAIL", !.ops = <<"load">>,
                          !.err = Wrap("cannot load cache", ld.err)]
      ELSE IF CacheHit(got.found, force)
      THEN Resolve(mapped, got.version)
      ELSE [mapped EXCEPT !.state = "FETCH_REMOTE", !.ops = @ \o <<"fetch">>]

\* a hit stores the entry again, at the time of the hit, and saves
InferBegin_touchOnHit(name, f, readFails, force, t) ==
    LET base == [NoRes EXCEPT !.name = name, !.fileBefore = f, !.fileAfter = f]
    IN
    IF Len(name) = 0
    THEN [base EXCEPT !.state = "FAIL", !.err = <<"function name cannot be empty">>]
    ELSE IF LooksLikePackageRef(name)
    THEN [base EXCEPT !.state = "DONE", !.passThrough = TRUE, !.packageName = name]
    ELSE
      LET m == mapFunctionNameToGitHubRepo(name)
          cacheKey == CacheKeyOf(m.owner, m.repo)
          ld == loadCache(f, readFails)
          cache == IF ld.err # NoErr THEN EmptyCache ELSE ld.cache
          got == getCachedVersion(cache, cacheKey, t, getCacheExpiration)
          mapped == [base EXCEPT !.owner = m.owner, !.repo = m.repo, !.cacheKey = cacheKey,
                                 !.loadErr = ld.err, !.loaded = cache, !.cache = cache, !.checkedAt = t,
                                 !.ops = <<"load", "get">>]
      IN
      IF m.err # NoErr
      THEN [base EXCEPT !.state = "FAIL",
                        !.err = Wrap("cannot map function name to GitHub repository", m.err)]
      ELSE IF CacheHit(got.found, force)
      THEN LET touched == setCachedVersion(cache, cacheKey, got.version, t)
           IN Resolve([mapped EXCEPT !.cache = touched, !.ops = @ \o <<"set", "save">>,
                                     !.fileAfter = FileOf("json", touched)],
                      got.version)
      ELSE [mapped EXCEPT !.state = "FETCH_REMOTE", !.ops = @ \o <<"fetch">>]

\* inferPackageFromFunctionName up to the call of fetchLatestReleaseVersion:
\* the resolution record, DONE, FAIL or waiting in FETCH_REMOTE.
InferBegin(name, f, readFails, force, t) ==
    LET base == [NoRes EXCEPT !.name = name, !.fileBefore = f, !.fileAfter = f]
    IN
    IF Len(name) = 0
    THEN [base EXCEPT !.state = "FAIL", !.err = <<"function name cannot be empty">>]
    ELSE IF LooksLikePackageRef(name)
    THEN [base EXCEPT !.state = "DONE", !.passThrough = TRUE, !.packageName = name]
    ELSE
      LET m == mapFunctionNameToGitHubRepo(name)
          cacheKey == CacheKeyOf(m.owner, m.repo)
          ld == loadCache(f, readFails)
          cache == IF ld.err # NoErr THEN EmptyCache ELSE ld.cache
          got == getCachedVersion(cache, cacheKey, t, getCacheExpiration)
          mapped == [base EXCEPT !.owner = m.owner, !.repo = m.repo, !.cacheKey = cacheKey,
                                 !.loadErr = ld.err, !.loaded = cache, !.cache = cache, !.checkedAt = t,
                                 !.ops = <<"load", "get">>]
      IN
      IF m.err # NoErr
      THEN [base EXCEPT !.state = "FAIL",
                        !.err = Wrap("cannot map function name to GitHub repository", m.err)]
      ELSE IF CacheHit(got.found, force)
      THEN Resolve(mapped, got.version)
      ELSE [mapped EXCEPT !.state = "FETCH_REMOTE", !.ops = @ \o <<"fetch">>]

\* the fallback refreshes the entry it fell back to
RateLimited_touch(r, rateLimitErr) ==
    IF r.cacheKey \in DOMAIN r.cache
    THEN LET version == r.cache[r.cacheKey].version
             cache == setCachedVersion(r.cache, r.cacheKey, version, r.checkedAt + 1)
         IN Resolve([r EXCEPT !.cache = cache, !.fileAfter = FileOf("json", cache)], version)
    ELSE [r EXCEPT !.state = "FAIL",
                   !.err = Wrap("cannot fetch latest version (no cached version available)", rateLimitErr)]

\* the rate-limit error formatted with %v instead of wrapped with %w
RateLimited_opaque(r, rateLimitErr) ==
    IF r.cacheKey \in DOMAIN r.cache
    THEN Resolve(r, r.cache[r.cacheKey].version)
    ELSE [r EXCEPT !.state = "FAIL",
                   !.err = <<"cannot fetch latest version (no cached version available)">>]

\* a made-up version when there is nothing to fall back to
RateLimited_invent(r, rateLimitErr) ==
    IF r.cacheKey \in DOMAIN r.cache
    THEN Resolve(r, r.cache[r.cacheKey].version)
    ELSE Resolve(r, <<"latest">>)

\* a rate-limited call is made again
RateLimited_again(r, rateLimitErr) == [r EXCEPT !.ops = @ \o <<"fetch">>]

\* the fetch failed with a *RateLimitError: the stale fallback
RateLimited(r, rateLimitErr) ==
    IF r.cacheKey \in DOMAIN r.cache
    THEN Resolve(r, r.cache[r.cacheKey].version)
    ELSE [r EXCEPT !.state = "FAIL",
                   !.err = Wrap("cannot fetch latest version (no cached version available)", rateLimitErr)]

\* the stale fallback applied to every fetch failure
FetchFailed_fallback(r, err) ==
    IF r.cacheKey \in DOMAIN r.cache
    THEN Resolve(r, r.cache[r.cacheKey].version)
    ELSE [r EXCEPT !.state = "FAIL", !.err = Wrap("cannot fetch latest version", err)]

\* a failed fetch is tried a second time
FetchFailed_retry(r, err) ==
    IF Len(SelectSeq(r.ops, LAMBDA op : op = "fetch")) < 2
    THEN [r EXCEPT !.state = "FETCH_REMOTE", !.ops = @ \o <<"fetch">>]
    ELSE [r EXCEPT !.state = "FAIL", !.err = Wrap("cannot fetch latest version", err)]

\* the fetch failed with any other error
FetchFailed(r, err) ==
    [r EXCEPT !.state = "FAIL", !.err = Wrap("cannot fetch latest version", err)]

\* the error of saveCache returned instead of logged
FetchSucceeded_failOnSave(r, version, f, writeOutcome, t) ==
    LET cache == setCachedVersion(r.cache, r.cacheKey, version, t)
        saved == saveCache(f, cache, writeOutcome)
        stored == [r EXCEPT !.cache = cache, !.ops = @ \o <<"set", "save">>, !.setAt = t,
                            !.saveErr = saved.err, !.fileAfter = saved.file]
    IN IF saved.err # NoErr
       THEN [stored EXCEPT !.state = "FAIL", !.err = Wrap("cannot save cache", saved.err)]
       ELSE Resolve(stored, version)

\* the fetch succeeded: store in the cache, save, carry on whatever the save did
FetchSucceeded(r, version, f, writeOutcome, t) ==
    LET cache == setCachedVersion(r.cache, r.cacheKey, version, t)
        saved == saveCache(f, cache, writeOutcome)
    IN Resolve([r EXCEPT !.cache = cache, !.ops = @ \o <<"set", "save">>, !.setAt = t,
                         !.saveErr = saved.err, !.fileAfter = saved.file],
               version)

\* inferPackageFromFunctionName from the return of fetchLatestReleaseVersion
\* on: r is the resolution waiting in FETCH_REMOTE.
InferEnd(r, resp, f, writeOutcome, t) ==
    LET fetched == fetchLatestReleaseVersion(resp)
        base == [r EXCEPT !.tag = fetched.version, !.fetchErr = fetched.err, !.fileAfter = f]
    IN
    IF fetched.err # NoErr
    THEN IF IsRateLimitErrorType(fetched.err)
         THEN RateLimited(base, fetched.err)
         ELSE FetchFailed(base, fetched.err)
    ELSE FetchSucceeded(base, fetched.version, f, writeOutcome, t)

\* ---------------------------------------------------------------- extractor

\* the mode of the composition is not looked at
Start_anyMode(p) ==
    /\ pc[p] = "start"
    /\ IF Len(comp[p].pipeline) = 0
       THEN /\ pc' = [pc EXCEPT ![p] = "returned"]
            /\ retErr' = [retErr EXCEPT ![p] = <<"composition pipeline is empty">>]
       ELSE /\ pc' = [pc EXCEPT ![p] = "loop"]
            /\ retErr' = retErr
    /\ UNCHANGED <<file, now, inputs, idx, functionMap, functions, ctxDone, res, calls, resolutions, probe>>

\* ExtractFunctionsFromComposition up to the range loop
Start(p) ==
    /\ pc[p] = "start"
    /\ IF comp[p].mode # "Pipeline"
       THEN /\ pc' = [pc EXCEPT ![p] = "returned"]
            /\ retErr' = [retErr EXCEPT ![p] = <<"composition must use Pipeline mode to extract functions">>]
       ELSE IF Len(comp[p].pipeline) = 0
       THEN /\ pc' = [pc EXCEPT ![p] = "returned"]
            /\ retErr' = [retErr EXCEPT ![p] = <<"composition pipeline is empty">>]
       ELSE /\ pc' = [pc EXCEPT ![p] = "loop"]
            /\ retErr' = retErr
    /\ UNCHANGED <<file, now, inputs, idx, functionMap, functions, ctxDone, res, calls, resolutions, probe>>

\* What a resolution that has ended did: its cache key, when it looked the
\* key up, the fetchedAt of the entry its store holds for the key (none or
\* one), whether it called the remote, whether it stored and saved what the
\* remote returned, whether the read or the write of the cache file failed,
\* and the version it gave.
Outcome(r) ==
    [ cacheKey |-> r.cacheKey,
      at |-> r.checkedAt,
      entryAt |-> { r.cache[k].fetchedAt : k \in DOMAIN r.cache \cap {r.cacheKey} },
      fetched |-> \E i \in 1..Len(r.ops) : r.ops[i] = "fetch",
      persisted |-> /\ r.state = "DONE" /\ r.fetchErr = NoErr
                    /\ (\E i \in 1..Len(r.ops) : r.ops[i] = "save") /\ r.saveErr = NoErr,
      ioFailed |-> r.loadErr # NoErr \/ r.saveErr # NoErr,
      version |-> r.version ]

\* a failed resolution is passed over and the walk goes on
Resolved_continue(p, functionName, r) ==
    /\ res' = [res EXCEPT ![p] = r]
    /\ resolutions' = [resolutions EXCEPT ![p] = Append(@, Outcome(r))]
    /\ file' = r.fileAfter
    /\ pc' = [pc EXCEPT ![p] = "loop"]
    /\ idx' = [idx EXCEPT ![p] = @ + 1]
    /\ IF r.state = "FAIL"
       THEN /\ functions' = functions
            /\ retErr' = [retErr EXCEPT ![p] = Wrap("cannot determine package for function", r.err)]
       ELSE /\ functions' = [functions EXCEPT ![p] = Append(@, Function(functionName, r.packageName))]
            /\ retErr' = retErr

\* the rest of the loop body once the resolution r of functionName has ended
Resolved(p, functionName, r) ==
    /\ res' = [res EXCEPT ![p] = r]
    /\ resolutions' = [resolutions EXCEPT ![p] = Append(@, Outcome(r))]
    /\ file' = r.fileAfter
    /\ IF r.state = "FAIL"
       THEN /\ pc' = [pc EXCEPT ![p] = "returned"]
            /\ functions' = [functions EXCEPT ![p] = <<>>]
            /\ retErr' = [retErr EXCEPT ![p] = Wrap("cannot determine package for function", r.err)]
            /\ idx' = idx
       ELSE /\ pc' = [pc EXCEPT ![p] = "loop"]
            /\ functions' = [functions EXCEPT ![p] = Append(@, Function(functionName, r.packageName))]
            /\ retErr' = retErr
            /\ idx' = [idx EXCEPT ![p] = @ + 1]

\* the names already seen are not consulted
Skipped_noDedup(functionName, seen) == functionName = EmptyString

\* steps without a name are resolved like the others
Skipped_onlySeen(functionName, seen) == functionName \in seen

\* "skip if we've already added this function", and steps without a name
Skipped(functionName, seen) == functionName = EmptyString \/ functionName \in seen

\* one iteration of the range loop, up to the remote call if it makes one
Step(p) ==
    /\ pc[p] = "loop"
    /\ idx[p] <= Len(comp[p].pipeline)
    /\ LET functionName == comp[p].pipeline[idx[p]]
       IN IF Skipped(functionName, functionMap[p])
          THEN /\ idx' = [idx EXCEPT ![p] = @ + 1]
               /\ UNCHANGED <<file, pc, functionMap, functions, retErr, res, calls, resolutions>>
          ELSE /\ functionMap' = [functionMap EXCEPT ![p] = @ \cup {functionName}]
               /\ calls' = [calls EXCEPT ![p] = Append(@, functionName)]
               /\ \E readFails \in BOOLEAN :
                     LET r == InferBegin(functionName, file, readFails, forceRefresh[p], now)
                     IN IF r.state = "FETCH_REMOTE"
                        THEN /\ res' = [res EXCEPT ![p] = r]
                             /\ pc' = [pc EXCEPT ![p] = "fetching"]
                             /\ UNCHANGED <<file, idx, functions, retErr, resolutions>>
                        ELSE Resolved(p, functionName, r)
    /\ UNCHANGED <<now, inputs, ctxDone, probe>>

\* the remote call returns and the iteration completes
FetchReturn(p) ==
    /\ pc[p] = "fetching"
    /\ \E resp \in Responses, writeOutcome \in WriteOutcomes :
          /\ ctxDone[p] => resp = NetErr
          /\ Resolved(p, res[p].name, InferEnd(res[p], resp, file, writeOutcome, now))
    /\ UNCHANGED <<now, inputs, functionMap, ctxDone, calls, probe>>

\* ExtractFunctionsFromComposition after the loop
Return(p) ==
    /\ pc[p] = "loop"
    /\ idx[p] > Len(comp[p].pipeline)
    /\ pc' = [pc EXCEPT ![p] = "returned"]
    /\ IF Len(functions[p]) = 0
       THEN retErr' = [retErr EXCEPT ![p] = <<"no function references found in composition pipeline">>]
       ELSE retErr' = retErr
    /\ UNCHANGED <<file, now, inputs, idx, functionMap, functions, ctxDone, res, calls, resolutions, probe>>

\* the deadline of context.WithTimeout passes while the extraction runs
CtxTimeout(p) ==
    /\ pc[p] \in {"loop", "fetching"}
    /\ ~ctxDone[p]
    /\ ctxDone' = [ctxDone EXCEPT ![p] = TRUE]
    /\ UNCHANGED <<file, now, pc, inputs, idx, functionMap, functions, retErr, res, calls, resolutions, probe>>

\* time passes
Tick ==
    /\ \E p \in Procs : pc[p] \in {"start", "loop", "fetching"}
    /\ now < MaxTime
    /\ now' = now + 1
    /\ UNCHANGED <<file, pc, inputs, idx, functionMap, functions, retErr, ctxDone, res, calls, resolutions, probe>>

Next ==
    \/ \E p \in Procs : Start(p)
    \/ \E p \in Procs : Step(p)
    \/ \E p \in Procs : FetchReturn(p)
    \/ \E p \in Procs : Return(p)
    \/ \E p \in Procs : CtxTimeout(p)
    \/ Tick

Spec == Init /\ [][Next]_vars

SpecExtract == InitExtract /\ [][Next]_vars

SpecLong == InitLong /\ [][Next]_vars

\* the steps of the extraction's own code, and the return of the remote call
\* (client.Do returns by the client timeout and the context deadline)
Run(p) == Start(p) \/ Step(p) \/ FetchReturn(p) \/ Return(p)

\* the extractor's walk, which goes on while it can
SpecLive == InitExtract /\ [][Next]_vars /\ \A p \in Procs : WF_vars(Run(p))

\* ------------------------------------------------------ the store on its own
\* getCachedVersion and setCachedVersion applied directly to a store, at any
\* time and under any expiration CROSSBENCH_CACHE_EXPIRATION can set.

\* getCacheExpiration: time.ParseDuration accepts zero and negative durations
Expirations == {0 - 1, 0, 1, 2}

StoreVersions == { <<"v1">>, <<"v2">> }

\* the stores the cache files of InitFiles load as
InitStores == { loadCache(f, FALSE).cache : f \in InitFiles }

NoCall == [op |-> "none", key |-> EmptyString, version |-> EmptyString, at |-> 0]

\* The store, the expiration in force, the last call (op, key, the version
\* passed or returned, found, the time of the call), the store before that
\* call and the call before it.
StoreProbe(cache, expiration) ==
    [ op |-> "none", cache |-> cache, expiration |-> expiration,
      key |-> EmptyString, version |-> EmptyString, found |-> FALSE, at |-> 0,
      before |-> cache, prev |-> NoCall ]

LastCall(pr) == [op |-> pr.op, key |-> pr.key, version |-> pr.version, at |-> pr.at]

InitCache ==
    /\ file = FileOf("missing", EmptyMap)
    /\ now = 1
    /\ pc = [p \in Procs |-> "off"]
    /\ comp = [p \in Procs |-> Composition("Pipeline", <<>>)]
    /\ forceRefresh = [p \in Procs |-> FALSE]
    /\ InitLocals
    /\ \E cache \in InitStores, expiration \in Expirations :
          probe = StoreProbe(cache, expiration)

harness == <<file, pc, inputs, idx, functionMap, functions, retErr, ctxDone, res, calls, resolutions>>

\* setCachedVersion(cache, cacheKey, version) at the present time
SetCached ==
    /\ \E cacheKey \in InitKeys, version \in StoreVersions :
          probe' = [probe EXCEPT !.op = "set", !.key = cacheKey, !.version = version,
                                 !.found = FALSE, !.at = now,
                                 !.cache = setCachedVersion(probe.cache, cacheKey, version, now),
                                 !.before = probe.cache, !.prev = LastCall(probe)]
    /\ UNCHANGED <<now, harness>>

\* getCachedVersion(cache, cacheKey) at the present time
GetCached ==
    /\ \E cacheKey \in InitKeys :
          LET got == getCachedVersion(probe.cache, cacheKey, now, probe.expiration)
          IN probe' = [probe EXCEPT !.op = "get", !.key = cacheKey, !.version = got.version,
                                    !.found = got.found, !.at = now,
                                    !.before = probe.cache, !.prev = LastCall(probe)]
    /\ UNCHANGED <<now, harness>>

\* time passes between two calls
Elapse ==
    /\ now < MaxTime
    /\ now' = now + 1
    /\ UNCHANGED <<probe, harness>>

NextCache == SetCached \/ GetCached \/ Elapse

SpecCache == InitCache /\ [][NextCache]_vars

\* ------------------------------------------------- the name mapper on its own
\* mapFunctionNameToGitHubRepo applied to a name, and again to the repo it gave.

MapperTokens == {"crossplane-contrib-", "function-", "foo", "bar", "baz"}

\* the non-empty names without "/" and ":" of at most MaxNameLen tokens
MapperNames == UNION { [1..n -> MapperTokens] : n \in 1..MaxNameLen }

\* the name, what the mapper returned for it, and for the repo of that
MapperProbe(name) ==
    [ op |-> "name", name |-> name,
      mapped |-> [owner |-> EmptyString, repo |-> EmptyString, err |-> NoErr],
      again |-> [owner |-> EmptyString, repo |-> EmptyString, err |-> NoErr] ]

InitMapper ==
    /\ file = FileOf("missing", EmptyMap)
    /\ now = 1
    /\ pc = [p \in Procs |-> "off"]
    /\ comp = [p \in Procs |-> Composition("Pipeline", <<>>)]
    /\ forceRefresh = [p \in Procs |-> FALSE]
    /\ InitLocals
    /\ \E name \in MapperNames : probe = MapperProbe(name)

\* mapFunctionNameToGitHubRepo(functionName)
MapName ==
    /\ probe.op = "name"
    /\ probe' = [probe EXCEPT !.op = "mapped",
                              !.mapped = mapFunctionNameToGitHubRepo(probe.name)]
    /\ UNCHANGED <<now, harness>>

\* mapFunctionNameToGitHubRepo(repo) on the repo just returned
MapRepo ==
    /\ probe.op = "mapped"
    /\ probe' = [probe EXCEPT !.op = "mapped again",
                              !.again = mapFunctionNameToGitHubRepo(probe.mapped.repo)]
    /\ UNCHANGED <<now, harness>>

NextMapper == MapName \/ MapRepo

SpecMapper == InitMapper /\ [][NextMapper]_vars

\* ------------------------------------------- the release client on its own
\* fetchLatestReleaseVersion applied to a response of the release API.

\* statuses of the release API, the redirect and server-error ones too
ProbeStatuses == {200, 301, 403, 404, 429, 500}

ProbeTags == { <<"v1">>, <<"v2">>, <<"v0.9.2">> }

ProbeResponses ==
    {NetErr}
    \cup { HttpResp(s, m, TRUE, t) : s \in ProbeStatuses, m \in BOOLEAN, t \in ProbeTags \cup {EmptyString} }
    \cup { HttpResp(s, m, FALSE, EmptyString) : s \in ProbeStatuses, m \in BOOLEAN }

\* the response, and what the client returned for it
FetchProbe(resp) ==
    [ op |-> "response", resp |-> resp, version |-> EmptyString, err |-> NoErr ]

InitFetch ==
    /\ file = FileOf("missing", EmptyMap)
    /\ now = 1
    /\ pc = [p \in Procs |-> "off"]
    /\ comp = [p \in Procs |-> Composition("Pipeline", <<>>)]
    /\ forceRefresh = [p \in Procs |-> FALSE]
    /\ InitLocals
    /\ \E resp \in ProbeResponses : probe = FetchProbe(resp)

\* fetchLatestReleaseVersion(ctx, owner, repo) once client.Do has returned
FetchLatest ==
    /\ probe.op = "response"
    /\ LET fetched == fetchLatestReleaseVersion(probe.resp)
       IN probe' = [probe EXCEPT !.op = "fetched", !.version = fetched.version,
                                 !.err = fetched.err]
    /\ UNCHANGED <<now, harness>>

NextFetch == FetchLatest

SpecFetch == InitFetch /\ [][NextFetch]_vars

\* ------------------------------------------------ two invocations at once
\* Two invocations of the tool on one cache file, one function name each.
\* afero.WriteFile is OpenFile(O_WRONLY|O_CREATE|O_TRUNC), Write, Close:
\* the file is emptied when it is opened and filled from offset 0 when it
\* is written, and nothing holds the other invocation off in between.

\* the file as it was found, and the opens and writes of the cache file in order
RaceProbe(f) == [op |-> "race", initial |-> f, events |-> <<>>]

FileEvent(p, what) == [proc |-> p, what |-> what]

InitRace ==
    /\ file \in InitFiles
    /\ now = 1
    /\ pc = [p \in Procs |-> "start"]
    /\ \E names \in [Procs -> ResolverNames] :
          comp = [p \in Procs |-> Composition("Pipeline", <<names[p]>>)]
    /\ forceRefresh \in [Procs -> BOOLEAN]
    /\ InitLocals
    /\ probe = RaceProbe(file)

\* the open with O_TRUNC leaves the file without content
Truncated == FileOf("invalid", EmptyMap)

\* the remote call returns; after a version was fetched the entry is stored
\* and saveCache gets as far as opening the cache file
FetchOpen(p) ==
    /\ pc[p] = "fetching"
    /\ \E resp \in Responses, openOutcome \in {"ok", "open"} :
          LET fetched == fetchLatestReleaseVersion(resp)
          IN IF fetched.err # NoErr \/ openOutcome = "open"
             THEN /\ Resolved(p, res[p].name, InferEnd(res[p], resp, file, "open", now))
                  /\ probe' = probe
             ELSE /\ res' = [res EXCEPT ![p] =
                                [@ EXCEPT !.tag = fetched.version, !.fetchErr = NoErr,
                                          !.cache = setCachedVersion(@, res[p].cacheKey, fetched.version, now),
                                          !.ops = @ \o <<"set">>, !.setAt = now]]
                  /\ file' = Truncated
                  /\ pc' = [pc EXCEPT ![p] = "writing"]
                  /\ probe' = [probe EXCEPT !.events = Append(@, FileEvent(p, "open"))]
                  /\ UNCHANGED <<idx, functions, retErr, resolutions>>
    /\ UNCHANGED <<now, inputs, functionMap, ctxDone, calls>>

\* The bytes of the store written at offset 0 of a file that holds the bytes
\* of another store: a store of more entries is longer and replaces them, a
\* store of fewer entries is shorter and leaves their tail behind it; with
\* as many entries the lengths depend on the keys and on the digits of the
\* timestamps, and either happens.
WrittenOver(cache, held, longEnough) ==
    IF Cardinality(DOMAIN cache) > Cardinality(DOMAIN held) THEN FileOf("json", cache)
    ELSE IF Cardinality(DOMAIN cache) < Cardinality(DOMAIN held) THEN FileOf("invalid", EmptyMap)
    ELSE IF longEnough THEN FileOf("json", cache)
    ELSE FileOf("invalid", EmptyMap)

\* the Write of afero.WriteFile and the rest of the iteration
WriteFile(p) ==
    /\ pc[p] = "writing"
    /\ \E writeOutcome \in {"ok", "write"}, longEnough \in BOOLEAN :
          LET written == IF writeOutcome = "write" THEN saveCache(file, res[p].cache, "write").file
                         ELSE IF file.kind = "json"
                              THEN WrittenOver(res[p].cache, file.versions, longEnough)
                              ELSE saveCache(file, res[p].cache, "ok").file
              r == [res[p] EXCEPT !.ops = @ \o <<"save">>,
                                  !.saveErr = saveCache(file, res[p].cache, writeOutcome).err,
                                  !.fileAfter = written]
          IN Resolved(p, res[p].name, Resolve(r, res[p].tag))
    /\ probe' = [probe EXCEPT !.events = Append(@, FileEvent(p, "write"))]
    /\ UNCHANGED <<now, inputs, functionMap, ctxDone, calls>>

NextRace ==
    \/ \E p \in Procs : Start(p)
    \/ \E p \in Procs : Step(p)
    \/ \E p \in Procs : FetchOpen(p)
    \/ \E p \in Procs : WriteFile(p)
    \/ \E p \in Procs : Return(p)

SpecRace == InitRace /\ [][NextRace]_vars

\* ------------------------------------------------------------------ claims

Ended(r) == r.state \in {"DONE", "FAIL"}

Fetched(r) == Contains(r.ops, "fetch")

Wrote(r) == Contains(r.ops, "set") \/ Contains(r.ops, "save")

RateLimitedFetch(r) == Fetched(r) /\ IsRateLimitErrorType(r.fetchErr)

HasEntry(r) == r.cacheKey \in DOMAIN r.loaded

\* the entry of the loaded store was within the expiration when it was looked up
FreshEntry(r) ==
    /\ HasEntry(r)
    /\ r.checkedAt - r.loaded[r.cacheKey].fetchedAt <= getCacheExpiration

LastFunction(p) == functions[p][Len(functions[p])]

\* the resolution ended DONE and its package reference is the last descriptor
Delivered(p) ==
    /\ res[p].state = "DONE"
    /\ Len(functions[p]) > 0
    /\ LastFunction(p) = Function(res[p].name, res[p].packageName)

\* the part of a package reference after its last colon
PackageVersion(packageName) ==
    LET i == CHOOSE k \in 1..Len(packageName) :
                 /\ packageName[k] = ":"
                 /\ \A j \in (k + 1)..Len(packageName) : packageName[j] # ":"
    IN SubSeq(packageName, i + 1, Len(packageName))

\* the resolution left the store and the cache file as it found them
Untouched(p) ==
    /\ res[p].cache = res[p].loaded
    /\ res[p].fileAfter = res[p].fileBefore
    /\ file = res[p].fileBefore
    /\ ~Wrote(res[p])

\* C1: a rate-limited fetch with an entry in the loaded store (fresh or
\* expired, forced or not) ends DONE with that entry's version, and neither
\* the store nor the cache file changes.
C1_RateLimitedFallsBack ==
    \A p \in Procs :
        (Ended(res[p]) /\ RateLimitedFetch(res[p]) /\ HasEntry(res[p])) =>
            /\ Delivered(p)
            /\ res[p].version = res[p].loaded[res[p].cacheKey].version
            /\ PackageVersion(LastFunction(p).package) = res[p].loaded[res[p].cacheKey].version
            /\ Untouched(p)
            /\ file.kind = "json"
            /\ res[p].cacheKey \in DOMAIN file.versions
            /\ file.versions[res[p].cacheKey] = res[p].loaded[res[p].cacheKey]

C1_Witness ==
    \E p \in Procs :
        /\ Ended(res[p]) /\ RateLimitedFetch(res[p]) /\ FreshEntry(res[p])
        /\ forceRefresh[p]
        /\ Delivered(p)

\* C2: a rate-limited fetch with no entry in the loaded store fails with an
\* error that errors.As still finds to be a RateLimitError (which no other
\* fetch failure is), returns no package and writes nothing.
C2_RateLimitedWithoutEntryFails ==
    \A p \in Procs :
        /\ (Ended(res[p]) /\ RateLimitedFetch(res[p]) /\ ~HasEntry(res[p])) =>
              /\ res[p].state = "FAIL"
              /\ ErrorsAsRateLimit(res[p].err)
              /\ res[p].packageName = EmptyString
              /\ pc[p] = "returned"
              /\ ErrorsAsRateLimit(retErr[p])
              /\ functions[p] = <<>>
              /\ Untouched(p)
        /\ (Ended(res[p]) /\ Fetched(res[p]) /\ res[p].state = "FAIL" /\ ~RateLimitedFetch(res[p])) =>
              /\ ~ErrorsAsRateLimit(res[p].err)
              /\ ~ErrorsAsRateLimit(retErr[p])

C2_Witness ==
    \E p \in Procs :
        /\ Ended(res[p]) /\ RateLimitedFetch(res[p]) /\ ~HasEntry(res[p])
        /\ res[p].state = "FAIL"
        /\ pc[p] = "returned"

\* C3: the version in a resolved package reference is the tag fetched in that
\* resolution or the version of the loaded store's entry for its cache key.
C3_NoInventedVersion ==
    \A p \in Procs :
        (res[p].state = "DONE" /\ ~res[p].passThrough) =>
            /\ Delivered(p)
            /\ \/ /\ Fetched(res[p])
                  /\ res[p].fetchErr = NoErr
                  /\ res[p].tag \in Tags
                  /\ PackageVersion(LastFunction(p).package) = res[p].tag
               \/ /\ HasEntry(res[p])
                  /\ PackageVersion(LastFunction(p).package) = res[p].loaded[res[p].cacheKey].version

C3_Witness ==
    \E p \in Procs :
        /\ res[p].state = "DONE" /\ ~res[p].passThrough
        /\ Fetched(res[p]) /\ res[p].fetchErr = NoErr
        /\ HasEntry(res[p])
        /\ res[p].tag # res[p].loaded[res[p].cacheKey].version
        /\ PackageVersion(LastFunction(p).package) = res[p].tag

\* C4: with forceRefresh, every resolution of a name that is not passed
\* through calls the remote, also when the loaded entry is unexpired.
C4_ForceRefreshAlwaysFetches ==
    \A p \in Procs :
        (forceRefresh[p] /\ res[p].state # "NONE" /\ ~LooksLikePackageRef(res[p].name)) =>
            Fetched(res[p])

C4_Witness ==
    \E p \in Procs :
        /\ forceRefresh[p] /\ FreshEntry(res[p])
        /\ Fetched(res[p]) /\ Delivered(p)

\* C5: without forceRefresh, an unexpired entry of the loaded store ends the
\* resolution DONE with its version after the load and the lookup alone; the
\* remote is called only on a miss or under forceRefresh.
C5_FreshHitDoesNotFetch ==
    \A p \in Procs :
        /\ (~forceRefresh[p] /\ res[p].state # "NONE" /\ FreshEntry(res[p])) =>
              /\ Delivered(p)
              /\ res[p].ops = <<"load", "get">>
              /\ PackageVersion(LastFunction(p).package) = res[p].loaded[res[p].cacheKey].version
              /\ Untouched(p)
        /\ Fetched(res[p]) => (forceRefresh[p] \/ ~FreshEntry(res[p]))

C5_Witness ==
    \E p \in Procs :
        /\ ~forceRefresh[p] /\ FreshEntry(res[p])
        /\ res[p].checkedAt - res[p].loaded[res[p].cacheKey].fetchedAt = getCacheExpiration
        /\ Delivered(p)
        /\ ~Fetched(res[p])

FetchedVersion(r) == Fetched(r) /\ r.fetchErr = NoErr

\* C6: after a successful fetch of v and a successful save, the cache file is
\* the whole store with the key mapped to v, fetched at the time of the
\* update, and the package reference returned ends in ":v".
C6_FetchedVersionPersisted ==
    \A p \in Procs :
        (Ended(res[p]) /\ FetchedVersion(res[p]) /\ res[p].saveErr = NoErr) =>
            /\ file.kind = "json"
            /\ res[p].cacheKey \in DOMAIN file.versions
            /\ file.versions[res[p].cacheKey] = CacheEntry(res[p].tag, res[p].setAt)
            /\ res[p].checkedAt <= res[p].setAt /\ res[p].setAt <= now
            /\ file.versions = res[p].cache
            /\ Delivered(p)
            /\ HasPrefix(LastFunction(p).package, getDefaultPackageRegistry)
                  \/ HasPrefix(LastFunction(p).package, getUpboundPackageRegistry)
            /\ PackageVersion(LastFunction(p).package) = res[p].tag

C6_Witness ==
    \E p \in Procs :
        /\ Ended(res[p]) /\ FetchedVersion(res[p]) /\ res[p].saveErr = NoErr
        /\ HasEntry(res[p])
        /\ res[p].loaded[res[p].cacheKey].fetchedAt < res[p].setAt
        /\ res[p].checkedAt < res[p].setAt
        /\ file.versions[res[p].cacheKey].version = <<"v2">>

\* C7: when the fetch succeeds and the save fails, the resolution is DONE
\* with the fetched version; no error of the extraction comes from a save.
C7_SaveFailureTolerated ==
    \A p \in Procs :
        /\ (Ended(res[p]) /\ FetchedVersion(res[p]) /\ res[p].saveErr # NoErr) =>
              /\ Delivered(p)
              /\ PackageVersion(LastFunction(p).package) = res[p].tag
              /\ pc[p] = "returned" => (retErr[p] = NoErr /\ Len(functions[p]) > 0)
        /\ ~Contains(res[p].err, "failed to write cache file")
        /\ ~Contains(retErr[p], "failed to write cache file")

C7_Witness ==
    \E p \in Procs :
        /\ Ended(res[p]) /\ FetchedVersion(res[p]) /\ res[p].saveErr # NoErr
        /\ file.kind = "invalid"
        /\ pc[p] = "returned" /\ retErr[p] = NoErr
        /\ Len(functions[p]) > 1

\* C8: a fetch failure that is not a rate limit fails the resolution and the
\* extraction, with or without an entry for the key, and leaves the store
\* and the cache file alone.
C8_OtherFetchErrorsFail ==
    \A p \in Procs :
        (Ended(res[p]) /\ Fetched(res[p]) /\ res[p].fetchErr # NoErr
            /\ ~IsRateLimitErrorType(res[p].fetchErr)) =>
            /\ res[p].state = "FAIL"
            /\ res[p].packageName = EmptyString
            /\ res[p].err = Wrap("cannot fetch latest version", res[p].fetchErr)
            /\ pc[p] = "returned"
            /\ functions[p] = <<>>
            /\ retErr[p] = Wrap("cannot determine package for function", res[p].err)
            /\ Untouched(p)

C8_Witness ==
    \E p \in Procs :
        /\ Ended(res[p]) /\ Fetched(res[p])
        /\ res[p].fetchErr = <<"GitHub API returned status">>
        /\ FreshEntry(res[p])
        /\ res[p].state = "FAIL"

\* C9: a non-empty name with "/" or ":" is returned as it is, with no load,
\* lookup, write or remote call, whatever forceRefresh and the cache file are.
C9_PassThrough ==
    \A p \in Procs :
        (res[p].state # "NONE" /\ res[p].name # EmptyString
            /\ (Contains(res[p].name, "/") \/ Contains(res[p].name, ":"))) =>
            /\ Delivered(p)
            /\ LastFunction(p) = Function(res[p].name, res[p].name)
            /\ res[p].ops = <<>>
            /\ Untouched(p)

C9_Witness ==
    \E p \in Procs :
        /\ Delivered(p)
        /\ Contains(res[p].name, ":") /\ ~Contains(res[p].name, "/")
        /\ forceRefresh[p]
        /\ file.kind = "json"
        /\ LastFunction(p).package = res[p].name

NamesOf(fns) == [i \in 1..Len(fns) |-> fns[i].name]

FirstPos(name, pipeline) ==
    CHOOSE i \in 1..Len(pipeline) :
        /\ pipeline[i] = name
        /\ \A j \in 1..(i - 1) : pipeline[j] # name

\* ns lists each distinct non-empty name of the pipeline once, by first occurrence
FirstSeenOrder(ns, pipeline) ==
    /\ { ns[i] : i \in 1..Len(ns) } = { pipeline[i] : i \in 1..Len(pipeline) } \ {EmptyString}
    /\ \A i, j \in 1..Len(ns) :
          i < j => FirstPos(ns[i], pipeline) < FirstPos(ns[j], pipeline)

NoRepeats(ns) == \A i, j \in 1..Len(ns) : i # j => ns[i] # ns[j]

\* C10: a successful extraction returns one descriptor per distinct non-empty
\* name, in first-occurrence order, and resolved each of them once.
C10_OneDescriptorPerName ==
    \A p \in Procs :
        /\ NoRepeats(calls[p])
        /\ NoRepeats(NamesOf(functions[p]))
        /\ (pc[p] = "returned" /\ retErr[p] = NoErr) =>
              /\ FirstSeenOrder(NamesOf(functions[p]), comp[p].pipeline)
              /\ calls[p] = NamesOf(functions[p])

C10_Witness ==
    \E p \in Procs :
        /\ pc[p] = "returned" /\ retErr[p] = NoErr
        /\ Len(comp[p].pipeline) = 3
        /\ comp[p].pipeline[1] = comp[p].pipeline[3]
        /\ comp[p].pipeline[1] # comp[p].pipeline[2]
        /\ comp[p].pipeline[1] # EmptyString /\ comp[p].pipeline[2] # EmptyString
        /\ NamesOf(functions[p]) = <<comp[p].pipeline[1], comp[p].pipeline[2]>>
        /\ Fetched(res[p])

\* the distinct non-empty names among the first n steps, by first occurrence
RECURSIVE DistinctNames(_, _)
DistinctNames(pipeline, n) ==
    IF n = 0 THEN <<>>
    ELSE LET before == DistinctNames(pipeline, n - 1)
         IN IF pipeline[n] = EmptyString \/ Contains(before, pipeline[n])
            THEN before
            ELSE Append(before, pipeline[n])

ResolutionFailed(p) == res[p].state = "FAIL"

\* C11: when a resolution fails the extraction has returned: its error is
\* the failure wrapped, the list is empty, the walk stands at the failing
\* step, the resolver was called for the names up to that step and for
\* none after it, and no step of the extraction can follow; an extraction
\* that returned this error stopped at a failure.
C11_FailsFast ==
    \A p \in Procs :
        /\ ResolutionFailed(p) =>
              /\ pc[p] = "returned"
              /\ retErr[p] = Wrap("cannot determine package for function", res[p].err)
              /\ functions[p] = <<>>
              /\ idx[p] <= Len(comp[p].pipeline)
              /\ comp[p].pipeline[idx[p]] = res[p].name
              /\ calls[p] = DistinctNames(comp[p].pipeline, idx[p])
              /\ calls[p][Len(calls[p])] = res[p].name
              /\ file = res[p].fileAfter
              /\ ~ENABLED (Step(p) \/ FetchReturn(p) \/ Return(p))
        /\ (Len(retErr[p]) > 0 /\ retErr[p][1] = "cannot determine package for function") =>
              ResolutionFailed(p)

C11_Witness ==
    \E p \in Procs :
        /\ ResolutionFailed(p)
        /\ pc[p] = "returned"
        /\ idx[p] = 1 /\ Len(comp[p].pipeline) = 2
        /\ comp[p].pipeline[2] # comp[p].pipeline[1]
        /\ calls[p] = <<comp[p].pipeline[1]>>
        /\ functions[p] = <<>>

\* nothing of a resolution has happened: no call of the resolver, no
\* resolution record, and the cache file is one the run started with
NothingResolved(p) ==
    /\ calls[p] = <<>>
    /\ res[p] = NoRes
    /\ functionMap[p] = {}
    /\ functions[p] = <<>>
    /\ file \in InitFiles

\* C12: past its first checks, an extraction of a composition that is not in
\* Pipeline mode has returned the mode error, and one of a Pipeline-mode
\* composition without steps the empty-pipeline error, and in both nothing
\* of a resolution has happened; no other extraction returns these errors.
C12_RejectedBeforeResolution ==
    \A p \in Procs :
        /\ (pc[p] \notin {"off", "start"} /\ comp[p].mode # "Pipeline") =>
              /\ pc[p] = "returned"
              /\ retErr[p] = <<"composition must use Pipeline mode to extract functions">>
              /\ NothingResolved(p)
        /\ (pc[p] \notin {"off", "start"} /\ comp[p].mode = "Pipeline" /\ Len(comp[p].pipeline) = 0) =>
              /\ pc[p] = "returned"
              /\ retErr[p] = <<"composition pipeline is empty">>
              /\ NothingResolved(p)
        /\ retErr[p] = <<"composition must use Pipeline mode to extract functions">> =>
              comp[p].mode # "Pipeline"
        /\ retErr[p] = <<"composition pipeline is empty">> =>
              (comp[p].mode = "Pipeline" /\ Len(comp[p].pipeline) = 0)

C12_Witness ==
    \E p \in Procs :
        /\ pc[p] = "returned"
        /\ comp[p].mode # "Pipeline"
        /\ Len(comp[p].pipeline) = 1
        /\ file.kind = "json"
        /\ retErr[p] = <<"composition must use Pipeline mode to extract functions">>

EmptyNameError == <<"function name cannot be empty">>

NoFunctionsFoundError == <<"no function references found in composition pipeline">>

AllStepsEmpty(pipeline) == \A i \in 1..Len(pipeline) : pipeline[i] = EmptyString

\* C13: the resolver is never called with the empty name and no error of a
\* resolution or of the extraction is the empty-name error; a returned
\* extraction of a Pipeline-mode composition whose steps (at least one) all
\* have the empty name called the resolver for none and failed with the
\* no-functions-found error; an extraction that returned without error
\* returned at least one descriptor.
C13_EmptyNamesSkipped ==
    \A p \in Procs :
        /\ ~Contains(calls[p], EmptyString)
        /\ res[p].state # "NONE" => res[p].name # EmptyString
        /\ ~Contains(res[p].err, EmptyNameError[1])
        /\ ~Contains(retErr[p], EmptyNameError[1])
        /\ (pc[p] = "returned" /\ comp[p].mode = "Pipeline"
                /\ Len(comp[p].pipeline) > 0 /\ AllStepsEmpty(comp[p].pipeline)) =>
              /\ retErr[p] = NoFunctionsFoundError
              /\ functions[p] = <<>>
              /\ calls[p] = <<>>
              /\ res[p] = NoRes
        /\ (pc[p] = "returned" /\ retErr[p] = NoErr) => Len(functions[p]) >= 1

C13_Witness ==
    \E p \in Procs :
        /\ pc[p] = "returned"
        /\ comp[p].mode = "Pipeline"
        /\ Len(comp[p].pipeline) = 2
        /\ AllStepsEmpty(comp[p].pipeline)
        /\ retErr[p] = NoFunctionsFoundError
        /\ calls[p] = <<>>

\* the last two calls were set(key, v) and get(key) with no time between them
SetThenGet(pr) ==
    /\ pr.op = "get"
    /\ pr.prev.op = "set"
    /\ pr.prev.key = pr.key
    /\ pr.prev.at = pr.at

\* C14: under a positive expiration, a get of a key right after a set of
\* that key to v returns (v, true), whatever the store held before; the set
\* left the key with v and the time of the set and the other keys alone.
C14_SetThenGet ==
    /\ (SetThenGet(probe) /\ probe.expiration > 0) =>
          /\ probe.found
          /\ probe.version = probe.prev.version
    /\ probe.op = "set" =>
          /\ probe.key \in DOMAIN probe.cache
          /\ probe.cache[probe.key] = CacheEntry(probe.version, probe.at)
          /\ DOMAIN probe.cache = DOMAIN probe.before \cup {probe.key}
          /\ \A k \in DOMAIN probe.before : k # probe.key => probe.cache[k] = probe.before[k]

C14_Witness ==
    /\ SetThenGet(probe)
    /\ probe.expiration = 1
    /\ probe.found
    /\ probe.version = <<"v2">>
    /\ probe.cache[probe.key].fetchedAt = 2
    /\ Cardinality(DOMAIN probe.cache) = 2

\* the entry of the key was in the store and within the expiration at the get
StoreHit(pr) ==
    /\ pr.key \in DOMAIN pr.before
    /\ pr.at - pr.before[pr.key].fetchedAt <= pr.expiration

\* C15: a get returns found with the entry's version exactly when the key is
\* in the store and the age of its entry is at most the expiration, returns
\* not found and no version otherwise, and leaves the store as it was.
C15_GetIsReadOnly ==
    probe.op = "get" =>
        /\ probe.found <=> StoreHit(probe)
        /\ StoreHit(probe) => probe.version = probe.before[probe.key].version
        /\ ~StoreHit(probe) => probe.version = EmptyString
        /\ probe.cache = probe.before

C15_Witness ==
    /\ probe.op = "get"
    /\ probe.key \in DOMAIN probe.before
    /\ probe.expiration = 1
    /\ probe.at - probe.before[probe.key].fetchedAt = 2
    /\ ~probe.found
    /\ probe.cache[probe.key] = CacheEntry(<<"v1">>, 0)

\* the keys persisted in a cache file
FileKeys(f) == IF f.kind = "json" THEN DOMAIN f.versions ELSE {}

\* some resolution has just fetched a version for the key and stored it
FetchedFor(cacheKey) ==
    \E p \in Procs :
        /\ res'[p].state = "DONE"
        /\ res'[p].cacheKey = cacheKey
        /\ FetchedVersion(res'[p])

\* C16: in every step a key of the cache file stays in the cache file, and
\* its entry changes only when a version was fetched for that key.
C16_StaleEntriesKept ==
    [][\A k \in FileKeys(file) :
          /\ k \in FileKeys(file')
          /\ file'.versions[k] # file.versions[k] => FetchedFor(k)]_vars

\* the resolution went through loadCache
Loaded(r) == Contains(r.ops, "load")

\* afero.ReadFile failed on a file that exists
ReadFailed(r) == Contains(r.loadErr, "failed to read cache file")

\* the cache file was absent, not JSON, or JSON without a versions map
NothingToLoad(f) == f.kind \in {"missing", "invalid", "nomap"}

\* C17: when the file is missing, or is read and is not JSON or has no
\* versions map, loadCache returns no error and an empty store, and the
\* resolution goes on as a miss: it calls the remote, and a fetched version
\* is stored in that store.
C17_TolerantLoad ==
    \A p \in Procs :
        (Loaded(res[p]) /\ NothingToLoad(res[p].fileBefore) /\ ~ReadFailed(res[p])) =>
            /\ res[p].loadErr = NoErr
            /\ res[p].loaded = EmptyCache
            /\ ~HasEntry(res[p])
            /\ Fetched(res[p])
            /\ (Ended(res[p]) /\ FetchedVersion(res[p])) =>
                  /\ DOMAIN res[p].cache = {res[p].cacheKey}
                  /\ Delivered(p)

C17_Witness ==
    \E p \in Procs :
        /\ Loaded(res[p])
        /\ res[p].fileBefore.kind = "invalid"
        /\ res[p].loadErr = NoErr
        /\ ~forceRefresh[p]
        /\ Ended(res[p]) /\ FetchedVersion(res[p])
        /\ file.kind = "json"
        /\ Delivered(p)

\* C18 as stated: loadCache never returns an error.
C18_LoadNeverFails ==
    \A p \in Procs : res[p].loadErr = NoErr

\* C18, amended: loadCache returns an error only for a file that exists and
\* cannot be read; the resolution then goes on with an empty store as a
\* miss, calls the remote, and the read failure is in no error the
\* resolution or the extraction returns.
C18_ReadFailureSwallowed ==
    \A p \in Procs :
        /\ res[p].loadErr # NoErr =>
              /\ res[p].loadErr = <<"failed to read cache file", "io">>
              /\ res[p].fileBefore.kind # "missing"
        /\ ReadFailed(res[p]) =>
              /\ res[p].loaded = EmptyCache
              /\ ~HasEntry(res[p])
              /\ Fetched(res[p])
              /\ (Ended(res[p]) /\ FetchedVersion(res[p])) => Delivered(p)
        /\ ~Contains(res[p].err, "failed to read cache file")
        /\ ~Contains(retErr[p], "failed to read cache file")

C18_Witness ==
    \E p \in Procs :
        /\ ReadFailed(res[p])
        /\ ~forceRefresh[p]
        /\ res[p].cacheKey \in FileKeys(res[p].fileBefore)
        /\ res[p].checkedAt - res[p].fileBefore.versions[res[p].cacheKey].fetchedAt <= getCacheExpiration
        /\ Ended(res[p]) /\ FetchedVersion(res[p])
        /\ Delivered(p)

\* the fetchedAt of no key of both stores is earlier in the second
NoRegress(before, after) ==
    \A k \in DOMAIN before \cap DOMAIN after : after[k].fetchedAt >= before[k].fetchedAt

\* what a cache file holds
FileVersions(f) == IF f.kind = "json" THEN f.versions ELSE EmptyMap

\* C19: in every step, the fetchedAt of a key in the cache file and in the
\* store the process holds in memory is not earlier than it was.
C19_FetchedAtNeverRegresses ==
    [][/\ NoRegress(FileVersions(file), FileVersions(file'))
       /\ \A p \in Procs : NoRegress(res[p].cache, res'[p].cache)]_vars

\* the part of C19 about the cache file
FileFetchedAtNeverRegresses ==
    [][NoRegress(FileVersions(file), FileVersions(file'))]_vars

\* the repo C20 gives for a name: the three cases, by the leading tokens
RepoOf(name) ==
    IF Len(name) >= 2 /\ name[1] = "crossplane-contrib-" /\ name[2] = "function-"
    THEN <<"function-">> \o SubSeq(name, 3, Len(name))
    ELSE IF name[1] = "function-"
    THEN name
    ELSE <<"function-">> \o name

\* C20: the mapper returns no error, the default owner and the repo of the
\* three cases; so it does for the three names of the examples; the repo
\* starts with "function-", and the mapper applied to it returns it again.
C20_NameMapping ==
    /\ probe.op \in {"mapped", "mapped again"} =>
          /\ probe.mapped.err = NoErr
          /\ probe.mapped.owner = getDefaultGitHubOwner
          /\ probe.mapped.repo = RepoOf(probe.name)
          /\ probe.mapped.repo[1] = "function-"
          /\ probe.name = <<"crossplane-contrib-", "function-", "foo">> =>
                probe.mapped.repo = <<"function-", "foo">>
          /\ probe.name = <<"function-", "bar">> => probe.mapped.repo = <<"function-", "bar">>
          /\ probe.name = <<"baz">> => probe.mapped.repo = <<"function-", "baz">>
    /\ probe.op = "mapped again" =>
          /\ probe.again.err = NoErr
          /\ probe.again.owner = probe.mapped.owner
          /\ probe.again.repo = probe.mapped.repo

C20_Witness ==
    /\ probe.op = "mapped again"
    /\ probe.name = <<"crossplane-contrib-", "function-", "foo">>
    /\ probe.mapped.repo = <<"function-", "foo">>
    /\ probe.again.repo = <<"function-", "foo">>

\* the registry a package reference starts with
RegistryOf(packageName) ==
    LET i == CHOOSE k \in 1..Len(packageName) :
                 /\ packageName[k] = "/"
                 /\ \A j \in 1..(k - 1) : packageName[j] # "/"
    IN SubSeq(packageName, 1, i - 1)

\* C21: a resolution that ended DONE and was not passed through returned
\* registry "/" cache key ":" version; the registry is the Upbound one
\* exactly when the name is in the list of Upbound function names, and is
\* the Upbound one for every name whose repo is in that list.
C21_RegistryRouting ==
    \A p \in Procs :
        (res[p].state = "DONE" /\ ~res[p].passThrough) =>
            LET registry == RegistryOf(res[p].packageName)
            IN /\ res[p].packageName = registry \o <<"/">> \o res[p].cacheKey \o <<":">> \o res[p].version
               /\ registry \in {getDefaultPackageRegistry, getUpboundPackageRegistry}
               /\ registry = getUpboundPackageRegistry <=> res[p].name \in getUpboundFunctionNames
               /\ res[p].repo \in getUpboundFunctionNames => registry = getUpboundPackageRegistry

\* the part of C21 that reads the name as given
RegistryByName ==
    \A p \in Procs :
        (res[p].state = "DONE" /\ ~res[p].passThrough) =>
            LET registry == RegistryOf(res[p].packageName)
            IN /\ res[p].packageName = registry \o <<"/">> \o res[p].cacheKey \o <<":">> \o res[p].version
               /\ registry = getUpboundPackageRegistry <=> res[p].name \in getUpboundFunctionNames
               /\ registry # getUpboundPackageRegistry => registry = getDefaultPackageRegistry

\* C22: for a response with a status, the client returns a RateLimitError
\* exactly for status 403 with the marker in the body; for any other status
\* than 200 the status error, with or without the marker; for 200 the
\* decode error when the body does not decode, the no-tag error when
\* tag_name is empty, and otherwise the tag as it is and no error.
C22_FetchOutcome ==
    (probe.op = "fetched" /\ probe.resp.kind = "http") =>
        LET resp == probe.resp
        IN /\ ErrorsAsRateLimit(probe.err) <=> (resp.status = 403 /\ resp.marker)
           /\ (resp.status = 403 /\ resp.marker) => probe.err = <<"RateLimitError">>
           /\ (resp.status # 200 /\ ~(resp.status = 403 /\ resp.marker)) =>
                 probe.err = <<"GitHub API returned status">>
           /\ (resp.status = 200 /\ ~resp.json) => probe.err[1] = "failed to decode response"
           /\ (resp.status = 200 /\ resp.json /\ resp.tag = EmptyString) =>
                 probe.err = <<"no tag name found in release">>
           /\ (resp.status = 200 /\ resp.json /\ resp.tag # EmptyString) =>
                 (probe.err = NoErr /\ probe.version = resp.tag)
           /\ probe.err # NoErr => probe.version = EmptyString

C22_Witness ==
    /\ probe.op = "fetched"
    /\ probe.resp.status = 429 /\ probe.resp.marker
    /\ probe.err = <<"GitHub API returned status">>

\* a step of the walk that starts the resolution of a further name
NextResolutionStarts(p) ==
    /\ Len(calls[p]) >= 1
    /\ Len(calls'[p]) = Len(calls[p]) + 1

\* C23: the resolution of a further name of the extraction does not go
\* through loadCache and starts on the store the resolution before it left.
C23_LoadedOncePerExtraction ==
    [][\A p \in Procs :
          (NextResolutionStarts(p) /\ ~res[p].passThrough /\ ~res'[p].passThrough) =>
              /\ ~Loaded(res'[p])
              /\ res'[p].loaded = res[p].cache]_vars

\* the resolution that ended fetched a version for its key and could not save it
FetchedUnsaved(r) == r.state = "DONE" /\ FetchedVersion(r) /\ r.saveErr # NoErr

\* C24: when a resolution fetched a version for a key and its save failed,
\* the next resolution of the extraction, for a name of the same key,
\* without forceRefresh and within the expiration of the fetched entry, ends
\* DONE with the fetched version and without calling the remote.
C24_UnsavedEntryKept ==
    [][\A p \in Procs :
          (/\ FetchedUnsaved(res[p])
           /\ NextResolutionStarts(p)
           /\ res'[p].cacheKey = res[p].cacheKey
           /\ ~forceRefresh[p]
           /\ now - res[p].setAt <= getCacheExpiration) =>
              /\ res'[p].state = "DONE"
              /\ ~Fetched(res'[p])
              /\ res'[p].version = res[p].tag]_vars

\* how many remote calls a resolution made
Fetches(r) == Len(SelectSeq(r.ops, LAMBDA op : op = "fetch"))

\* C25: a resolution calls the remote at most once; a call is in flight only
\* for the resolution the walk is at, with the resolutions before it ended
\* and delivered; a resolution that failed after its call did nothing after
\* that call and ended the extraction.
C25_SequentialNoRetry ==
    \A p \in Procs :
        /\ Fetches(res[p]) <= 1
        /\ pc[p] = "fetching" <=> res[p].state = "FETCH_REMOTE"
        /\ pc[p] = "fetching" =>
              /\ Len(calls[p]) >= 1
              /\ calls[p][Len(calls[p])] = res[p].name
              /\ comp[p].pipeline[idx[p]] = res[p].name
              /\ Len(functions[p]) = Len(calls[p]) - 1
        /\ (Fetched(res[p]) /\ res[p].state = "FAIL") =>
              /\ res[p].ops[Len(res[p].ops)] = "fetch"
              /\ pc[p] = "returned"
        /\ pc[p] = "loop" => Len(functions[p]) = Len(calls[p])

C25_Witness ==
    \E p \in Procs :
        /\ pc[p] = "fetching"
        /\ Len(calls[p]) = 2
        /\ Len(functions[p]) = 1
        /\ PackageVersion(functions[p][1].package) = <<"v2">>
        /\ Fetches(res[p]) = 1

\* C27: once the context of the extraction is done, a remote call in flight
\* returns into a FAIL of its resolution with an error that is not a rate
\* limit, with the store and the cache file as they were and the extraction
\* returned without descriptors; and no resolution completes any more: the
\* list of descriptors does not grow.
C27_AbandonedOnExpiry ==
    [][\A p \in Procs :
          ctxDone[p] =>
              /\ (pc[p] = "fetching" /\ pc'[p] # "fetching") =>
                    /\ res'[p].state = "FAIL"
                    /\ ~ErrorsAsRateLimit(res'[p].err)
                    /\ res'[p].cache = res[p].cache
                    /\ file' = file
                    /\ pc'[p] = "returned"
                    /\ functions'[p] = <<>>
              /\ Len(functions'[p]) <= Len(functions[p])]_vars

\* the part of C27 about the call in flight
InFlightFetchAborted ==
    [][\A p \in Procs :
          (ctxDone[p] /\ pc[p] = "fetching" /\ pc'[p] # "fetching") =>
              /\ res'[p].state = "FAIL"
              /\ ~ErrorsAsRateLimit(res'[p].err)
              /\ res'[p].cache = res[p].cache
              /\ file' = file
              /\ pc'[p] = "returned"
              /\ functions'[p] = <<>>]_vars

\* the step starts the resolution of the next name: straight to DONE for a
\* package reference, else through the load and the lookup to DONE on a hit
\* or into the remote call
ResolutionBegins(p) ==
    /\ res[p].state \in {"NONE", "DONE"}
    /\ calls'[p] = Append(calls[p], res'[p].name)
    /\ IF res'[p].passThrough
       THEN res'[p].state = "DONE" /\ res'[p].ops = <<>>
       ELSE \/ res'[p].state = "DONE" /\ res'[p].ops = <<"load", "get">>
            \/ res'[p].state = "FETCH_REMOTE" /\ res'[p].ops = <<"load", "get", "fetch">>

\* the step takes the resolution out of the remote call into DONE or FAIL
ResolutionEnds(p) ==
    /\ res[p].state = "FETCH_REMOTE"
    /\ calls'[p] = calls[p]
    /\ res'[p].name = res[p].name
    /\ res'[p].state \in {"DONE", "FAIL"}
    /\ SubSeq(res'[p].ops, 1, 3) = <<"load", "get", "fetch">>
    /\ Fetches(res'[p]) = 1

\* the extraction returned the descriptors of all its names, or an error and none
FullListOrError(p) ==
    \/ /\ retErr[p] = NoErr
       /\ NamesOf(functions[p]) = DistinctNames(comp[p].pipeline, Len(comp[p].pipeline))
    \/ /\ retErr[p] # NoErr
       /\ functions[p] = <<>>

\* C28: a resolution begins with the cache lookup (a package reference is
\* DONE at once), goes from there to DONE or into the remote call, and from
\* the remote call, once, to DONE or FAIL; nothing else changes it. Every
\* extraction returns, with the full list of descriptors or with an error.
C28_ResolutionLifecycle ==
    /\ [][\A p \in Procs :
            res'[p] = res[p] \/ ResolutionBegins(p) \/ ResolutionEnds(p)]_vars
    /\ [](\A p \in Procs : pc[p] = "returned" => FullListOrError(p))
    /\ <>(\A p \in Procs : pc[p] \in {"off", "returned"})

C28_Witness ==
    \E p \in Procs :
        /\ pc[p] = "returned"
        /\ retErr[p] = NoErr
        /\ Len(functions[p]) = 3
        /\ Fetched(res[p]) /\ res[p].state = "DONE"

\* the resolution was served from the cache: DONE, not passed through, no remote call
ServedFromCache(r) == r.state = "DONE" /\ ~r.passThrough /\ ~Fetched(r)

\* C29: a resolution served from the cache did a load and a lookup and
\* nothing else; its store is the store it loaded, with the hit entry and
\* its fetchedAt as they were, and the cache file is the file it found, from
\* which the store was read.
C29_HitLeavesCacheAlone ==
    \A p \in Procs :
        ServedFromCache(res[p]) =>
            /\ ~forceRefresh[p]
            /\ res[p].ops = <<"load", "get">>
            /\ ~Wrote(res[p])
            /\ res[p].cache = res[p].loaded
            /\ res[p].fileAfter = res[p].fileBefore
            /\ file = res[p].fileBefore
            /\ file.kind = "json"
            /\ file.versions = res[p].loaded
            /\ res[p].cache[res[p].cacheKey].fetchedAt = res[p].loaded[res[p].cacheKey].fetchedAt
            /\ res[p].cache[res[p].cacheKey].version = res[p].version
            /\ res[p].checkedAt - file.versions[res[p].cacheKey].fetchedAt <= getCacheExpiration

\* a second hit in one extraction on the entry of an earlier run, still fetched at 0
C29_Witness ==
    \E p \in Procs :
        /\ ServedFromCache(res[p])
        /\ Len(calls[p]) = 2
        /\ PackageVersion(functions[p][1].package) = <<"v1">>
        /\ PackageVersion(functions[p][2].package) = <<"v1">>
        /\ file.versions[res[p].cacheKey].fetchedAt = 0
        /\ res[p].checkedAt = 1

\* the resolution loaded the store without error, fetched a version and saved
FetchedAndSaved(r) ==
    /\ r.state = "DONE" /\ FetchedVersion(r)
    /\ r.loadErr = NoErr
    /\ Contains(r.ops, "save") /\ r.saveErr = NoErr

\* C30: after a load without error, a successful fetch for a key and the
\* save, the file holds the loaded keys and the key fetched, and every other
\* key has the version and fetchedAt it was loaded with; the entry of the key
\* itself is the version fetched, at the time it was stored.
C30_OtherKeysUnchanged ==
    \A p \in Procs :
        FetchedAndSaved(res[p]) =>
            LET r == res[p] IN
            /\ r.fileAfter.kind = "json"
            /\ file = r.fileAfter
            /\ DOMAIN file.versions = DOMAIN r.loaded \cup {r.cacheKey}
            /\ \A k \in DOMAIN r.loaded \ {r.cacheKey} : file.versions[k] = r.loaded[k]
            /\ file.versions[r.cacheKey] = CacheEntry(r.tag, r.setAt)

\* the entry of one key is replaced while the other key, loaded from the
\* file, is still in the file as it was
C30_Witness ==
    \E p \in Procs :
        /\ FetchedAndSaved(res[p])
        /\ res[p].fileBefore.kind = "json"
        /\ res[p].cacheKey \in DOMAIN res[p].loaded
        /\ \E k \in DOMAIN res[p].loaded :
              /\ k # res[p].cacheKey
              /\ file.versions[k] = CacheEntry(<<"v1">>, 0)
        /\ file.versions[res[p].cacheKey].version = <<"v2">>
        /\ file.versions[res[p].cacheKey].fetchedAt > 0

\* both invocations have returned, each after a save without error
BothSaved ==
    \A p \in Procs :
        /\ pc[p] = "returned"
        /\ Contains(res[p].ops, "save") /\ res[p].saveErr = NoErr

\* the invocation whose write of the cache file came last
LastWriter == probe.events[Len(probe.events)].proc

\* the entry is in the file the invocations started on, or one of them fetched it
FromWriterOrInitialFile(k, entry) ==
    \/ k \in DOMAIN probe.initial.versions /\ probe.initial.versions[k] = entry
    \/ \E p \in Procs :
          /\ FetchedVersion(res[p]) /\ res[p].cacheKey = k
          /\ entry = CacheEntry(res[p].tag, res[p].setAt)

\* C26: when two invocations running at once on one cache file have both
\* loaded, fetched and saved without error, the file is well-formed, holds
\* exactly the store of the invocation that wrote last, and each of its
\* entries is one of the initial file or one fetched by an invocation.
C26_LastWriterWins ==
    BothSaved =>
        /\ file.kind = "json"
        /\ file.versions = res[LastWriter].cache
        /\ \A k \in DOMAIN file.versions : FromWriterOrInitialFile(k, file.versions[k])

\* the file is the store of the last writer whenever it is well-formed
LastWriterWinsUnlessTorn ==
    (BothSaved /\ file.kind = "json") =>
        /\ file.versions = res[LastWriter].cache
        /\ \A k \in DOMAIN file.versions : FromWriterOrInitialFile(k, file.versions[k])

\* the extraction failed in a resolution
ExtractionFailed(p) ==
    /\ pc[p] = "returned"
    /\ Len(resolutions[p]) >= 1
    /\ res[p].state = "FAIL"

\* the key is in the cache file
InFile(cacheKey) == file.kind = "json" /\ cacheKey \in DOMAIN file.versions

\* C31: when the extraction has failed in a resolution, no descriptor is
\* returned, and every key that an earlier resolution of the extraction
\* fetched, stored and saved without error is in the cache file.
C31_NoRollback ==
    \A p \in Procs :
        ExtractionFailed(p) =>
            /\ functions[p] = <<>>
            /\ retErr[p] # NoErr
            /\ \A i \in 1..Len(resolutions[p]) :
                  resolutions[p][i].persisted => InFile(resolutions[p][i].cacheKey)

\* the same, for extractions in which no read and no write of the cache
\* file failed
NoRollbackWhenFileWorks ==
    \A p \in Procs :
        (ExtractionFailed(p) /\ \A i \in 1..Len(resolutions[p]) : ~resolutions[p][i].ioFailed) =>
            /\ functions[p] = <<>>
            /\ retErr[p] # NoErr
            /\ \A i \in 1..Len(resolutions[p]) :
                  resolutions[p][i].persisted => InFile(resolutions[p][i].cacheKey)

\* two entries persisted, then the failure
NoRollbackReached ==
    \E p \in Procs :
        /\ ExtractionFailed(p) /\ Len(resolutions[p]) = 3
        /\ \A i \in 1..3 : ~resolutions[p][i].ioFailed
        /\ resolutions[p][1].persisted /\ resolutions[p][2].persisted
        /\ resolutions[p][1].cacheKey # resolutions[p][2].cacheKey
        /\ InFile(resolutions[p][1].cacheKey) /\ InFile(resolutions[p][2].cacheKey)

\* The resolutions of the extraction so far, the one waiting for the remote
\* included.
Attempts(p) ==
    IF pc[p] = "fetching" THEN Append(resolutions[p], Outcome(res[p])) ELSE resolutions[p]

\* the entry the earlier resolution found or stored for the key had not
\* expired at its lookup and has expired at the later lookup
ExpiredBetween(a, b) ==
    \E e \in a.entryAt : a.at - e <= getCacheExpiration /\ b.at - e > getCacheExpiration

\* forceRefresh is false, no read and no write of the cache file failed, and
\* no entry expired between two lookups of its key
CacheWorked(p) ==
    /\ ~forceRefresh[p]
    /\ \A i \in 1..Len(Attempts(p)) : ~Attempts(p)[i].ioFailed
    /\ \A i, j \in 1..Len(Attempts(p)) :
          (i < j /\ Attempts(p)[i].cacheKey = Attempts(p)[j].cacheKey)
              => ~ExpiredBetween(Attempts(p)[i], Attempts(p)[j])

\* the two resolutions went through the cache with the same key
SameKey(a, b) == a.cacheKey # EmptyString /\ a.cacheKey = b.cacheKey

\* C32 as stated: in an extraction where the cache worked, no two resolutions
\* with the same cache key both call the remote, and two resolutions with
\* the same cache key that give a version give the same one.
C32_OneFetchPerKey ==
    \A p \in Procs :
        CacheWorked(p) =>
            \A i, j \in 1..Len(Attempts(p)) :
                (i < j /\ SameKey(Attempts(p)[i], Attempts(p)[j])) =>
                    /\ ~(Attempts(p)[i].fetched /\ Attempts(p)[j].fetched)
                    /\ (Attempts(p)[i].version # EmptyString /\ Attempts(p)[j].version # EmptyString)
                          => Attempts(p)[j].version = Attempts(p)[i].version

\* C32, amended: in an extraction where the cache worked, a resolution that
\* fetched a version and saved it is followed by no call of the remote for
\* the same cache key, and the later resolutions with that key give the
\* version it gave; a second call for a key is made only after a call that
\* stored nothing, the rate-limited one answered from the stale entry.
C32_OneFetchPerKeyOnceStored ==
    \A p \in Procs :
        CacheWorked(p) =>
            \A i, j \in 1..Len(Attempts(p)) :
                (i < j /\ SameKey(Attempts(p)[i], Attempts(p)[j])) =>
                    /\ Attempts(p)[i].persisted =>
                          /\ ~Attempts(p)[j].fetched
                          /\ j <= Len(resolutions[p])
                          /\ Attempts(p)[j].version = Attempts(p)[i].version
                    /\ (Attempts(p)[i].fetched /\ Attempts(p)[j].fetched) =>
                          /\ ~Attempts(p)[i].persisted
                          /\ InFile(Attempts(p)[i].cacheKey)

\* two names of one repository: the first fetched and saved, the second was
\* served what the first stored, and the two descriptors carry that version
C32_Witness ==
    \E p \in Procs :
        /\ CacheWorked(p)
        /\ pc[p] = "returned" /\ retErr[p] = NoErr
        /\ Len(resolutions[p]) = 2 /\ Len(functions[p]) = 2
        /\ functions[p][1].name # functions[p][2].name
        /\ SameKey(resolutions[p][1], resolutions[p][2])
        /\ resolutions[p][1].fetched /\ resolutions[p][1].persisted
        /\ ~resolutions[p][2].fetched
        /\ PackageVersion(functions[p][1].package) = <<"v2">>
        /\ PackageVersion(functions[p][2].package) = <<"v2">>

====
